---- MODULE Spec2Model ----
(***************************************************************************)
(* Model of the TodoApp class of static/js/todo.js: the in-memory todo     *)
(* collection, the search/date filter, the pagination state, the alerts    *)
(* and the remote calls in flight.  Every event handler and every          *)
(* continuation of an awaited remote call is one action.                   *)
(*                                                                         *)
(* Strings are sequences of one-character strings; the empty sequence is   *)
(* the empty string (falsy in JavaScript).  Dates are ISO strings          *)
(* YYYY-MM-DD written as the sequence of their three zero-padded fields,   *)
(* one element per field, and compared the way JavaScript compares         *)
(* strings, element by element.  The id 0 in an add response stands for a  *)
(* response that echoes no id (falsy).  Of the alerts, the loading         *)
(* indicator and the error alert are modelled, each as shown or hidden;    *)
(* the text of the error and the success alert, which no handler reads,    *)
(* are not.                                                                *)
(***************************************************************************)
EXTENDS Integers, Sequences, FiniteSets, Bags, TLC

VARIABLES
    todos,            \* this.todos
    filteredTodos,    \* this.filteredTodos
    currentPage,      \* this.currentPage
    searchInput,      \* value of #searchInput
    fromDate,         \* value of #fromDate
    toDate,           \* value of #toDate
    loadingIndicator, \* TRUE when #loadingIndicator is shown
    errorAlert,       \* TRUE when #errorAlert is shown
    inflight,         \* remote calls issued and not yet settled
    last,             \* history: the continuation that ran last, "event"
                      \* after an event handler
    tog,              \* history: the current run of toggles of one id
    resp,             \* history: the lists of the current run of resolved loads
    asked,            \* history: <<page>> right after goToPage(page), else <<>>
    track             \* which history is kept: "last", "tog", "loads", "pages"
                      \* or "pure" (last and asked)

vars == <<todos, filteredTodos, currentPage, searchInput, fromDate, toDate,
          loadingIndicator, errorAlert, inflight, last, tog, resp, asked, track>>

----------------------------------------------------------------------------
(* Bounds of the model *)

\* length of the collections the filter is tried on, every one of them
MaxLen == 2
\* length of the longest list the pagination is tried on
MaxItems == 95
\* remote calls in flight at one time
MaxInFlight == 2
\* locally added todos present or being added at one time
MaxAdds == 1
\* length of the long list the remote service returns
BigLoad == 11

(* Program constants *)

todosPerPage == 10

----------------------------------------------------------------------------
(* Strings *)

Whitespace == {" "}

RECURSIVE TrimStart(_)
TrimStart(s) ==
    IF s # <<>> /\ Head(s) \in Whitespace THEN TrimStart(Tail(s)) ELSE s

RECURSIVE TrimEnd(_)
TrimEnd(s) ==
    IF s # <<>> /\ s[Len(s)] \in Whitespace
    THEN TrimEnd(SubSeq(s, 1, Len(s) - 1))
    ELSE s

\* mutant: the value is used as typed
TrimNothing(s) == s

Trim(s) == TrimEnd(TrimStart(s))

LowerChar(c) ==
    CASE c = "A" -> "a"
      [] c = "B" -> "b"
      [] OTHER -> c

ToLowerCase(s) == [i \in 1..Len(s) |-> LowerChar(s[i])]

Includes(t, s) ==
    \E i \in 0..(Len(t) - Len(s)) : SubSeq(t, i + 1, i + Len(s)) = s

\* a <= b for date strings, as the JavaScript relational operators compare
\* strings: element by element, a proper prefix being smaller
RECURSIVE StrLeq(_, _)
StrLeq(a, b) ==
    IF a = <<>> THEN TRUE
    ELSE IF b = <<>> THEN FALSE
    ELSE IF Head(a) < Head(b) THEN TRUE
    ELSE IF Head(a) > Head(b) THEN FALSE
    ELSE StrLeq(Tail(a), Tail(b))

Ceil(n, p) == IF n % p = 0 THEN n \div p ELSE (n \div p) + 1

Min(a, b) == IF a <= b THEN a ELSE b

----------------------------------------------------------------------------
(* Data the environment supplies: the remote service and the user *)

Date1 == <<2023, 12, 31>>
Date2 == <<2024, 1, 15>>
\* the current date, new Date().toISOString().split('T')[0]
Today == <<2024, 2, 1>>

\* dates generateRandomDate can return
PastDates == <<Date1, Date2>>

RemoteTitle(i) == IF i % 2 = 1 THEN <<"a">> ELSE <<"B", "a">>

\* the list of GET /todos, n items long: { id, todo, completed, userId }
RemoteList(n) ==
    [i \in 1..n |-> [id |-> i, todo |-> RemoteTitle(i),
                     completed |-> (i % 2 = 0), userId |-> 1]]

\* the service returns the empty list or the long list
LoadSizes == {0, BigLoad}

\* outcomes of generateRandomDate over the items of one load
RandomDates(n) ==
    {[i \in 1..n |-> PastDates[((i + k) % Len(PastDates)) + 1]] : k \in 0..1}

\* values typed into #todoTitle and #todoUserId
TitleInputs == {<<>>, <<" ", " ">>, <<" ", "B", " ">>}
UserIdInputs == {<<1, 2>>}

\* values of the search box and of the two date pickers
SearchInputs == {<<>>, <<"B">>}
DateInputs == {<<>>, Date2}

\* ids passed to toggleTodo and deleteTodo
IdInputs == {1}

\* the id in the response of POST /todos/add; 0: the response has no id
AddResponseIds == {0, 1}

\* pages passed to goToPage
PageInputs == 0..(Ceil(BigLoad + MaxAdds, todosPerPage) + 1)

----------------------------------------------------------------------------
(* Remote calls *)

Req(kind, id, title, raw, userId, completed) ==
    [kind |-> kind, id |-> id, title |-> title, raw |-> raw,
     userId |-> userId, completed |-> completed]

GetReq == Req("get", 0, <<>>, <<>>, 0, FALSE)
\* newTodo of addTodo; raw is the value of #todoTitle as typed (history)
PostReq(title, raw, userId) == Req("post", 0, title, raw, userId, FALSE)
PutReq(id, completed) == Req("put", id, <<>>, <<>>, 0, completed)
DeleteReq(id) == Req("delete", id, <<>>, <<>>, 0, FALSE)

Issue(r) ==
    /\ BagCardinality(inflight) < MaxInFlight
    /\ inflight' = inflight (+) SetToBag({r})

Settle(r) == inflight' = inflight (-) SetToBag({r})

Pending(kind) == {r \in BagToSet(inflight) : r.kind = kind}

\* the response of POST /todos/add: the service echoes the body it was sent
AddResponse(r, id, echoTodo) ==
    [id |-> id, todo |-> IF echoTodo THEN r.title ELSE <<>>,
     completed |-> r.completed, userId |-> r.userId]

----------------------------------------------------------------------------
(* Pure parts of TodoApp *)

RECURSIVE ParseInt(_)
ParseInt(digits) ==
    IF digits = <<>> THEN 0
    ELSE 10 * ParseInt(SubSeq(digits, 1, Len(digits) - 1)) + digits[Len(digits)]

\* the predicate of the filter callback of applyFilters
\* mutant: the title is compared as it is written
MatchesSearchCaseSensitive(todo, searchTerm) ==
    searchTerm = <<>> \/ Includes(todo.title, searchTerm)

MatchesSearch(todo, searchTerm) ==
    searchTerm = <<>> \/ Includes(ToLowerCase(todo.title), searchTerm)

MatchesFromDate(todo, from) == from = <<>> \/ StrLeq(from, todo.createdAt)

\* mutant: the upper bound excludes the day itself
MatchesToDateExclusive(todo, to) ==
    to = <<>> \/ (StrLeq(todo.createdAt, to) /\ todo.createdAt # to)

MatchesToDate(todo, to) == to = <<>> \/ StrLeq(todo.createdAt, to)

Matches(todo, search, from, to) ==
    /\ MatchesSearch(todo, ToLowerCase(search))
    /\ MatchesFromDate(todo, from)
    /\ MatchesToDate(todo, to)

FilterTodos(T, search, from, to) ==
    SelectSeq(T, LAMBDA todo : Matches(todo, search, from, to))

\* mutant: Math.max(1, Math.ceil(...))
totalPagesAtLeastOne(F) ==
    IF Len(F) = 0 THEN 1 ELSE Ceil(Len(F), todosPerPage)

totalPages(F) == Ceil(Len(F), todosPerPage)

\* Array.prototype.slice(startIndex, endIndex)
\* mutant: the slice takes the item at endIndex too
SliceInclusive(F, startIndex, endIndex) ==
    SubSeq(F, startIndex + 1, Min(endIndex + 1, Len(F)))

Slice(F, startIndex, endIndex) ==
    SubSeq(F, startIndex + 1, Min(endIndex, Len(F)))

getPaginatedTodos(F, page) ==
    Slice(F, (page - 1) * todosPerPage, (page - 1) * todosPerPage + todosPerPage)

Abs(x) == IF x < 0 THEN 0 - x ELSE x

Ellipsis == 0

\* mutant: an ellipsis for every page the window leaves out
PageItemOrEllipsis(i, total, current) ==
    IF i = 1 \/ i = total \/ Abs(i - current) <= 2
    THEN <<i>>
    ELSE <<Ellipsis>>

\* what the loop of renderPagination adds for page i: the page number, an
\* ellipsis, or nothing
PageItem(i, total, current) ==
    IF i = 1 \/ i = total \/ Abs(i - current) <= 2
    THEN <<i>>
    ELSE IF Abs(i - current) = 3 THEN <<Ellipsis>> ELSE <<>>

RECURSIVE PageItemsUpTo(_, _, _)
PageItemsUpTo(i, total, current) ==
    IF i = 0 THEN <<>>
    ELSE PageItemsUpTo(i - 1, total, current) \o PageItem(i, total, current)

\* the page-number list of renderPagination, between Previous and Next;
\* nothing is rendered for one page or none
PageItems(total, current) ==
    IF total <= 1 THEN <<>> ELSE PageItemsUpTo(total, total, current)

\* findIndex(todo => todo.id === todoId); 0 stands for -1
FindIndex(T, todoId) ==
    IF \E i \in 1..Len(T) : T[i].id = todoId
    THEN CHOOSE i \in 1..Len(T) :
            /\ T[i].id = todoId
            /\ \A j \in 1..(i - 1) : T[j].id # todoId
    ELSE 0

----------------------------------------------------------------------------
(* Alerts: showLoading, hideLoading, showError, showSuccess *)

\* the indicator is shown and the error alert hidden
showLoading ==
    /\ loadingIndicator' = TRUE
    /\ errorAlert' = FALSE

showError ==
    /\ errorAlert' = TRUE
    /\ UNCHANGED loadingIndicator

\* mutant: the error is shown and the indicator is left as it is
showErrorLoadingStays ==
    /\ errorAlert' = TRUE
    /\ UNCHANGED loadingIndicator

\* hideLoading(), then showError(message)
hideLoadingShowError ==
    /\ loadingIndicator' = FALSE
    /\ errorAlert' = TRUE

\* showSuccess hides the error alert
showSuccess ==
    /\ errorAlert' = FALSE
    /\ UNCHANGED loadingIndicator

\* hideLoading(), then showSuccess(message)
hideLoadingShowSuccess ==
    /\ loadingIndicator' = FALSE
    /\ errorAlert' = FALSE

alerts == <<loadingIndicator, errorAlert>>
filters == <<searchInput, fromDate, toDate>>

----------------------------------------------------------------------------
(* History *)

\* the label kept of a step: a continuation in "last", and in "pages" the
\* steps that apply the filters or must leave the page alone; in "loads"
\* "local" once todos was changed with a load in flight, and "overwritten"
\* when one of these loads then resolves
LastOf(op) ==
    CASE track = "last" -> IF op = "toggleAbsent" THEN "event" ELSE op
      [] track = "pure" -> op
      [] track = "pages" ->
            IF op \in {"loadResolve", "addResolve", "toggleAbsent"} THEN op ELSE "event"
      [] track = "loads" ->
            IF op = "loadResolve" THEN (IF last = "local" THEN "overwritten" ELSE "event")
            ELSE IF CopiesIn(GetReq, inflight') # CopiesIn(GetReq, inflight) THEN "event"
            ELSE IF todos' # todos /\ CopiesIn(GetReq, inflight) > 0 THEN "local"
            ELSE IF last = "local" THEN "local" ELSE "event"
      [] OTHER -> "event"

\* the lists of the loads that resolved one after the other with no load
\* started or failed and no change of todos in between: the last two are kept
RespOf(got) ==
    IF track # "loads" THEN <<>>
    ELSE IF got # <<>> THEN (IF resp = <<>> THEN got ELSE <<resp[Len(resp)], got[1]>>)
    ELSE IF todos' = todos /\ CopiesIn(GetReq, inflight') = CopiesIn(GetReq, inflight)
         THEN resp
         ELSE <<>>

\* got is <<list>> when a load resolved with list, page is <<page>> when
\* goToPage(page) was called
DidAll(op, page, got) ==
    /\ last' = LastOf(op)
    /\ resp' = RespOf(got)
    /\ asked' = IF track \in {"pages", "pure"} THEN page ELSE <<>>
    /\ track' = track

DidPage(op, page) == DidAll(op, page, <<>>)

Did(op) == DidPage(op, <<>>)

NoTog == [id |-> 0, hist |-> <<>>]

\* a toggle of a present todo extends the run of toggles of that id; the
\* collection before each of the last two toggles of the run is kept
TogRun(id) ==
    tog' = IF track = "tog"
           THEN [id |-> id,
                 hist |-> IF tog.id = id /\ tog.hist # <<>>
                          THEN <<tog.hist[Len(tog.hist)], todos>>
                          ELSE <<todos>>]
           ELSE NoTog

----------------------------------------------------------------------------
(* applyFilters: recompute filteredTodos from the collection T and the     *)
(* three inputs, and go back to the first page                             *)

\* mutant: the page is kept
applyFiltersKeepPage(T, search, from, to) ==
    /\ filteredTodos' = FilterTodos(T, search, from, to)
    /\ currentPage' = currentPage

applyFilters(T, search, from, to) ==
    /\ filteredTodos' = FilterTodos(T, search, from, to)
    /\ currentPage' = 1

----------------------------------------------------------------------------
(* loadTodos *)

\* response.data.todos.map(...) with the dates generateRandomDate returned
\* mutant: a response is dropped when a list is already held
LoadedTodosFirstWins(list, dates) ==
    IF todos # <<>> THEN todos
    ELSE [i \in 1..Len(list) |->
            [id |-> list[i].id, title |-> list[i].todo,
             completed |-> list[i].completed, userId |-> list[i].userId,
             createdAt |-> dates[i]]]

\* mutant: the local completed flag of a todo already held is kept
LoadedTodosKeepsLocal(list, dates) ==
    [i \in 1..Len(list) |->
        [id |-> list[i].id, title |-> list[i].todo,
         completed |-> IF i <= Len(todos) /\ todos[i].id = list[i].id
                       THEN todos[i].completed
                       ELSE list[i].completed,
         userId |-> list[i].userId,
         createdAt |-> dates[i]]]

LoadedTodos(list, dates) ==
    [i \in 1..Len(list) |->
        [id |-> list[i].id, title |-> list[i].todo,
         completed |-> list[i].completed, userId |-> list[i].userId,
         createdAt |-> dates[i]]]

\* the refresh button: showLoading, then axios.get is issued
LoadStart ==
    /\ Issue(GetReq)
    /\ showLoading
    /\ tog' = NoTog
    /\ UNCHANGED <<todos, filteredTodos, currentPage, filters>>
    /\ Did("event")

\* mutant: the failed load empties the collection
LoadFailedClears ==
    /\ hideLoadingShowError
    /\ todos' = <<>>
    /\ applyFilters(todos', searchInput, fromDate, toDate)
    /\ UNCHANGED filters

\* the catch block of loadTodos
LoadFailed ==
    /\ hideLoadingShowError
    /\ UNCHANGED <<todos, filteredTodos, currentPage, filters>>

\* axios.get resolves with a list
LoadResolve ==
    \E r \in Pending("get") : \E n \in LoadSizes : \E dates \in RandomDates(n) :
        /\ Settle(r)
        /\ todos' = LoadedTodos(RemoteList(n), dates)
        /\ applyFilters(todos', searchInput, fromDate, toDate)
        /\ loadingIndicator' = FALSE
        /\ tog' = NoTog
        /\ UNCHANGED <<filters, errorAlert>>
        /\ DidAll("loadResolve", <<>>, <<RemoteList(n)>>)

\* axios.get rejects
LoadReject ==
    \E r \in Pending("get") :
        /\ Settle(r)
        /\ LoadFailed
        /\ tog' = NoTog
        /\ Did("loadReject")

\* axios.get resolves with a body that has no todos: .map throws
LoadNoList ==
    \E r \in Pending("get") :
        /\ Settle(r)
        /\ LoadFailed
        /\ tog' = NoTog
        /\ Did("loadNoList")

----------------------------------------------------------------------------
(* addTodo *)

\* locally added todos in T and adds in flight (bounds the model only)
LocalAdds(T) ==
    Cardinality({i \in 1..Len(T) : T[i].createdAt = Today})
    + BagCardinality([r \in Pending("post") |-> inflight[r]])

\* the title is empty after trim: showError and return
AddInvalid ==
    \E raw \in TitleInputs : \E uid \in UserIdInputs :
        /\ Trim(raw) = <<>>
        /\ showError
        /\ tog' = NoTog
        /\ UNCHANGED <<todos, filteredTodos, currentPage, filters, inflight>>
        /\ Did("event")

\* the form is submitted with a title: showLoading, then axios.post is issued
AddSubmit ==
    \E raw \in TitleInputs : \E uid \in UserIdInputs :
        /\ Trim(raw) # <<>>
        /\ LocalAdds(todos) < MaxAdds
        /\ Issue(PostReq(Trim(raw), raw, ParseInt(uid)))
        /\ showLoading
        /\ tog' = NoTog
        /\ UNCHANGED <<todos, filteredTodos, currentPage, filters>>
        /\ Did("event")

\* addedTodo, built from the response and the title of the call
AddedTodo(T, title, response) ==
    [id |-> IF response.id # 0 THEN response.id ELSE Len(T) + 1,
     title |-> IF response.todo # <<>> THEN response.todo ELSE title,
     completed |-> response.completed,
     userId |-> response.userId,
     createdAt |-> Today]

\* mutant: push instead of unshift
UnshiftAtEnd(T, todo) == T \o <<todo>>

\* this.todos.unshift(addedTodo)
Unshift(T, todo) == <<todo>> \o T

\* axios.post resolves
AddResolve ==
    \E r \in Pending("post") : \E id \in AddResponseIds : \E echoTodo \in BOOLEAN :
        /\ Settle(r)
        /\ todos' = Unshift(todos, AddedTodo(todos, r.title, AddResponse(r, id, echoTodo)))
        /\ applyFilters(todos', searchInput, fromDate, toDate)
        /\ hideLoadingShowSuccess
        /\ tog' = NoTog
        /\ UNCHANGED filters
        /\ Did("addResolve")

\* mutant: the todo of the failed call is added all the same
AddFailedAdds ==
    /\ hideLoadingShowError
    /\ \E r \in Pending("post") :
          todos' = <<[id |-> Len(todos) + 1, title |-> r.title,
                      completed |-> FALSE, userId |-> r.userId,
                      createdAt |-> Today]>> \o todos
    /\ applyFilters(todos', searchInput, fromDate, toDate)
    /\ UNCHANGED filters

\* the catch block of addTodo
AddFailed ==
    /\ hideLoadingShowError
    /\ UNCHANGED <<todos, filteredTodos, currentPage, filters>>

\* axios.post rejects
AddReject ==
    \E r \in Pending("post") :
        /\ Settle(r)
        /\ AddFailed
        /\ tog' = NoTog
        /\ Did("addReject")

----------------------------------------------------------------------------
(* toggleTodo *)

\* mutant: the todo is marked completed whatever it was
ToggledTodosCompletes(T, todoIndex) ==
    [T EXCEPT ![todoIndex].completed = TRUE]

\* this.todos[todoIndex] = { ...todo, completed: !todo.completed }
ToggledTodos(T, todoIndex) ==
    [T EXCEPT ![todoIndex].completed = ~T[todoIndex].completed]

\* mutant: the filters are applied before the todo is looked up
ToggleAbsentRefilters ==
    \E id \in IdInputs :
        /\ FindIndex(todos, id) = 0
        /\ applyFilters(todos, searchInput, fromDate, toDate)
        /\ tog' = NoTog
        /\ UNCHANGED <<todos, filters, alerts, inflight>>
        /\ Did("toggleAbsent")

\* no todo has the id: return
ToggleAbsent ==
    \E id \in IdInputs :
        /\ FindIndex(todos, id) = 0
        /\ tog' = NoTog
        /\ UNCHANGED <<todos, filteredTodos, currentPage, filters, alerts, inflight>>
        /\ Did("toggleAbsent")

\* mutant: axios.put is awaited first, the todo is not flipped before it
ToggleAfterResponse ==
    \E id \in IdInputs :
        /\ FindIndex(todos, id) # 0
        /\ Issue(PutReq(id, ~todos[FindIndex(todos, id)].completed))
        /\ TogRun(id)
        /\ UNCHANGED <<todos, filteredTodos, currentPage, filters, alerts>>
        /\ Did("event")

\* the todo is flipped, the filters are applied, then axios.put is issued
Toggle ==
    \E id \in IdInputs :
        /\ FindIndex(todos, id) # 0
        /\ todos' = ToggledTodos(todos, FindIndex(todos, id))
        /\ applyFilters(todos', searchInput, fromDate, toDate)
        /\ Issue(PutReq(id, todos'[FindIndex(todos, id)].completed))
        /\ TogRun(id)
        /\ UNCHANGED <<filters, alerts>>
        /\ Did("event")

\* axios.put resolves: showSuccess
PutResolve ==
    \E r \in Pending("put") :
        /\ Settle(r)
        /\ showSuccess
        /\ UNCHANGED <<todos, filteredTodos, currentPage, filters, tog>>
        /\ Did("putResolve")

\* mutant: the failure is shown like the failures of load and add
ServerUpdateFailedShowsError ==
    /\ errorAlert' = TRUE
    /\ UNCHANGED <<todos, filteredTodos, currentPage, filters, loadingIndicator>>

\* the inner catch of toggleTodo and of deleteTodo: console.warn
ServerUpdateFailed ==
    UNCHANGED <<todos, filteredTodos, currentPage, filters, alerts>>

\* axios.put rejects
PutReject ==
    \E r \in Pending("put") :
        /\ Settle(r)
        /\ ServerUpdateFailed
        /\ UNCHANGED tog
        /\ Did("putReject")

----------------------------------------------------------------------------
(* deleteTodo *)

\* mutant: the predicate of the filter is inverted
RemovedTodosInverted(T, todoId) == SelectSeq(T, LAMBDA todo : todo.id = todoId)

\* this.todos.filter(todo => todo.id !== todoId)
RemovedTodos(T, todoId) == SelectSeq(T, LAMBDA todo : todo.id # todoId)

\* confirm() is answered no: return
DeleteCancelled ==
    \E id \in IdInputs :
        /\ tog' = NoTog
        /\ UNCHANGED <<todos, filteredTodos, currentPage, filters, alerts, inflight>>
        /\ Did("event")

\* confirm() is answered yes: the todo is removed, the filters are applied,
\* then axios.delete is issued
Delete ==
    \E id \in IdInputs :
        /\ todos' = RemovedTodos(todos, id)
        /\ applyFilters(todos', searchInput, fromDate, toDate)
        /\ Issue(DeleteReq(id))
        /\ tog' = NoTog
        /\ UNCHANGED <<filters, alerts>>
        /\ Did("event")

\* axios.delete resolves: showSuccess
DeleteResolve ==
    \E r \in Pending("delete") :
        /\ Settle(r)
        /\ showSuccess
        /\ UNCHANGED <<todos, filteredTodos, currentPage, filters, tog>>
        /\ Did("deleteResolve")

\* axios.delete rejects
DeleteReject ==
    \E r \in Pending("delete") :
        /\ Settle(r)
        /\ ServerUpdateFailed
        /\ UNCHANGED tog
        /\ Did("deleteReject")

----------------------------------------------------------------------------
(* Filter inputs, clearFilters, goToPage *)

\* the input event of #searchInput
SearchChange ==
    \E v \in SearchInputs :
        /\ v # searchInput
        /\ searchInput' = v
        /\ applyFilters(todos, v, fromDate, toDate)
        /\ tog' = NoTog
        /\ UNCHANGED <<todos, fromDate, toDate, alerts, inflight>>
        /\ Did("event")

\* the change event of #fromDate
FromDateChange ==
    \E v \in DateInputs :
        /\ v # fromDate
        /\ fromDate' = v
        /\ applyFilters(todos, searchInput, v, toDate)
        /\ tog' = NoTog
        /\ UNCHANGED <<todos, searchInput, toDate, alerts, inflight>>
        /\ Did("event")

\* the change event of #toDate
ToDateChange ==
    \E v \in DateInputs :
        /\ v # toDate
        /\ toDate' = v
        /\ applyFilters(todos, searchInput, fromDate, v)
        /\ tog' = NoTog
        /\ UNCHANGED <<todos, searchInput, fromDate, alerts, inflight>>
        /\ Did("event")

clearFilters ==
    /\ searchInput' = <<>>
    /\ fromDate' = <<>>
    /\ toDate' = <<>>
    /\ applyFilters(todos, <<>>, <<>>, <<>>)
    /\ tog' = NoTog
    /\ UNCHANGED <<todos, alerts, inflight>>
    /\ Did("event")

\* mutant: a page out of range is clamped to the nearest page
PageAfterClamps(page, F, current) ==
    IF page < 1 THEN 1
    ELSE IF page > totalPages(F) THEN (IF totalPages(F) < 1 THEN 1 ELSE totalPages(F))
    ELSE page

\* the page goToPage(page) leaves current
PageAfter(page, F, current) ==
    IF page < 1 \/ page > totalPages(F) THEN current ELSE page

goToPage ==
    \E page \in PageInputs :
        /\ currentPage' = PageAfter(page, filteredTodos, currentPage)
        /\ tog' = NoTog
        /\ UNCHANGED <<todos, filteredTodos, filters, alerts, inflight>>
        /\ DidPage("event", <<page>>)

----------------------------------------------------------------------------
(* The application *)

\* the state the constructor leaves: init() has bound the events and
\* loadTodos() has shown the loading indicator and issued the first GET
Init ==
    /\ todos = <<>>
    /\ filteredTodos = <<>>
    /\ currentPage = 1
    /\ searchInput = <<>>
    /\ fromDate = <<>>
    /\ toDate = <<>>
    /\ loadingIndicator = TRUE
    /\ errorAlert = FALSE
    /\ inflight = SetToBag({GetReq})
    /\ last = "event"
    /\ tog = NoTog
    /\ resp = <<>>
    /\ asked = <<>>
    /\ track = "last"

Next ==
    \/ LoadStart
    \/ LoadResolve
    \/ LoadReject
    \/ LoadNoList
    \/ AddInvalid
    \/ AddSubmit
    \/ AddResolve
    \/ AddReject
    \/ ToggleAbsent
    \/ Toggle
    \/ PutResolve
    \/ PutReject
    \/ DeleteCancelled
    \/ Delete
    \/ DeleteResolve
    \/ DeleteReject
    \/ SearchChange
    \/ FromDateChange
    \/ ToDateChange
    \/ clearFilters
    \/ goToPage

Spec == Init /\ [][Next]_vars

\* the same application, keeping the history of toggles instead
InitTog ==
    /\ todos = <<>>
    /\ filteredTodos = <<>>
    /\ currentPage = 1
    /\ searchInput = <<>>
    /\ fromDate = <<>>
    /\ toDate = <<>>
    /\ loadingIndicator = TRUE
    /\ errorAlert = FALSE
    /\ inflight = SetToBag({GetReq})
    /\ last = "event"
    /\ tog = NoTog
    /\ resp = <<>>
    /\ asked = <<>>
    /\ track = "tog"

SpecTog == InitTog /\ [][Next]_vars

\* the same application, keeping the history of the resolved loads
InitLoads ==
    /\ todos = <<>>
    /\ filteredTodos = <<>>
    /\ currentPage = 1
    /\ searchInput = <<>>
    /\ fromDate = <<>>
    /\ toDate = <<>>
    /\ loadingIndicator = TRUE
    /\ errorAlert = FALSE
    /\ inflight = SetToBag({GetReq})
    /\ last = "event"
    /\ tog = NoTog
    /\ resp = <<>>
    /\ asked = <<>>
    /\ track = "loads"

SpecLoads == InitLoads /\ [][Next]_vars

\* the same application, keeping the history of the page asked for
InitPages ==
    /\ todos = <<>>
    /\ filteredTodos = <<>>
    /\ currentPage = 1
    /\ searchInput = <<>>
    /\ fromDate = <<>>
    /\ toDate = <<>>
    /\ loadingIndicator = TRUE
    /\ errorAlert = FALSE
    /\ inflight = SetToBag({GetReq})
    /\ last = "event"
    /\ tog = NoTog
    /\ resp = <<>>
    /\ asked = <<>>
    /\ track = "pages"

SpecPages == InitPages /\ [][Next]_vars

----------------------------------------------------------------------------
(* The filter and the pagination on their own: the inputs are drawn, then  *)
(* applyFilters and goToPage are applied to them                           *)

FilterTitles == {<<"a">>, <<"B", "a">>}
FilterDates == {Date1, Date2, Today}
FilterSearches == {<<>>, <<"B">>, <<"a", "b">>}
FilterBounds == {<<>>, Date1, Date2, Today}

\* every collection of at most MaxLen todos over the titles and the dates
SmallCollections ==
    UNION {[1..n -> [title : FilterTitles, createdAt : FilterDates]] : n \in 0..MaxLen}

TodoOf(i, t) ==
    [id |-> i, title |-> t.title, completed |-> FALSE, userId |-> 1,
     createdAt |-> t.createdAt]

\* every collection the filter is tried on, and the lists of 0..MaxItems
\* todos the pagination is tried on
InitPure ==
    /\ \/ /\ \E c \in SmallCollections : todos = [i \in 1..Len(c) |-> TodoOf(i, c[i])]
          /\ searchInput \in FilterSearches
          /\ fromDate \in FilterBounds
          /\ toDate \in FilterBounds
       \/ /\ \E n \in 0..MaxItems : \E dates \in RandomDates(n) :
                todos = LoadedTodos(RemoteList(n), dates)
          /\ searchInput \in {<<>>, <<"B">>}
          /\ fromDate = <<>>
          /\ toDate = <<>>
    /\ filteredTodos = <<>>
    /\ currentPage = 1
    /\ loadingIndicator = FALSE
    /\ errorAlert = FALSE
    /\ inflight = EmptyBag
    /\ last = "event"
    /\ tog = NoTog
    /\ resp = <<>>
    /\ asked = <<>>
    /\ track = "pure"

\* applyFilters on the inputs drawn
PureApply ==
    /\ last = "event"
    /\ applyFilters(todos, searchInput, fromDate, toDate)
    /\ UNCHANGED <<todos, filters, alerts, inflight, tog>>
    /\ Did("applyFilters")

\* goToPage(page) on the filtered list, for every page up to one past the last
PureGoTo ==
    /\ last # "event"
    /\ \E page \in 0..(totalPages(filteredTodos) + 1) :
          /\ currentPage' = PageAfter(page, filteredTodos, currentPage)
          /\ DidPage("goToPage", <<page>>)
    /\ UNCHANGED <<todos, filteredTodos, filters, alerts, inflight, tog>>

NextPure ==
    \/ PureApply
    \/ PureGoTo

SpecPure == InitPure /\ [][NextPure]_vars

----------------------------------------------------------------------------
(* Properties *)

Ids(T) == {T[i].id : i \in 1..Len(T)}

\* C1: no two todos of the collection have the same id
C1_UniqueIds ==
    \A i, j \in 1..Len(todos) : i # j => todos[i].id # todos[j].id

\* a date as a number of the form yyyymmdd
DateNum(d) == d[1] * 10000 + d[2] * 100 + d[3]

\* s occurs in title, letter case ignored
ContainsIgnoringCase(title, s) ==
    \E start \in 1..(Len(title) + 1) :
        /\ start + Len(s) - 1 <= Len(title)
        /\ \A k \in 1..Len(s) : LowerChar(title[start + k - 1]) = LowerChar(s[k])

\* the todo passes the filter the three inputs now describe
Satisfies(todo) ==
    /\ ContainsIgnoringCase(todo.title, searchInput)
    /\ fromDate # <<>> => DateNum(todo.createdAt) >= DateNum(fromDate)
    /\ toDate # <<>> => DateNum(todo.createdAt) <= DateNum(toDate)

\* the k-th smallest element of a set of numbers
Nth(S, k) == CHOOSE i \in S : Cardinality({j \in S : j < i}) = k - 1

\* C2: between handlers, filteredTodos is the todos that satisfy the current
\* filter inputs, each once, in the order they have in todos
C2_FilteredIsFilterOfTodos ==
    LET idx == {i \in 1..Len(todos) : Satisfies(todos[i])}
    IN  /\ Len(filteredTodos) = Cardinality(idx)
        /\ \A k \in 1..Len(filteredTodos) : filteredTodos[k] = todos[Nth(idx, k)]

\* a filter is active and has left out some todos but not all of them
C2_Witness ==
    /\ searchInput # <<>>
    /\ toDate # <<>>
    /\ filteredTodos # <<>>
    /\ Len(filteredTodos) < Len(todos)
    /\ \E i \in 1..Len(todos) : todos[i].createdAt = Today

\* the least k with k * p >= n
PageCount(n, p) == CHOOSE k \in 0..n : k * p >= n /\ \A j \in 0..(k - 1) : j * p < n

\* C3: currentPage is in 1 .. max(1, ceil(len(filteredTodos) / 10))
C3_PageInRange ==
    /\ currentPage >= 1
    /\ currentPage <= (IF PageCount(Len(filteredTodos), 10) > 1
                       THEN PageCount(Len(filteredTodos), 10) ELSE 1)

\* the last page of a list of more than ten todos is shown
C3_Witness ==
    /\ currentPage = 2
    /\ Len(filteredTodos) > 10

\* remote calls of a kind in flight
InFlight(kind) == BagCardinality([r \in Pending(kind) |-> inflight[r]])

\* C4: the continuation of a failed load leaves todos, filteredTodos and
\* currentPage as they were and shows the error
C4_FailedLoadKeepsState ==
    [][last' \in {"loadReject", "loadNoList"} =>
          /\ todos' = todos
          /\ filteredTodos' = filteredTodos
          /\ currentPage' = currentPage
          /\ errorAlert']_vars

\* a load has just failed while the second page of a loaded list was shown
C4_Witness ==
    /\ last = "loadReject"
    /\ Len(todos) > 10
    /\ currentPage = 2
    /\ errorAlert

\* the title has a character that is not whitespace
HasText(raw) == \E k \in 1..Len(raw) : raw[k] \notin Whitespace

\* C5: no add is ever issued for a title that is empty after trimming, and
\* the rejected add changes neither todos, filteredTodos, currentPage nor the
\* calls in flight and shows the error
C5_BlankTitleRejected ==
    /\ [](\A r \in Pending("post") : HasText(r.raw))
    /\ [][AddInvalid =>
            /\ UNCHANGED <<todos, filteredTodos, currentPage, inflight>>
            /\ errorAlert']_vars

\* the error is shown while the loading indicator of a call in flight still
\* is: only the rejected add shows an error without hiding the indicator
C5_Witness ==
    /\ errorAlert
    /\ loadingIndicator
    /\ todos # <<>>
    /\ InFlight("get") = 1

\* C6: issuing the add leaves todos as it was, and so does the continuation
\* of an add that failed, which shows the error
C6_FailedAddAddsNothing ==
    [][/\ InFlight("post")' > InFlight("post") => todos' = todos
       /\ last' = "addReject" => (todos' = todos /\ errorAlert')]_vars

\* an add has just failed on a loaded collection
C6_Witness ==
    /\ last = "addReject"
    /\ Len(todos) > 10
    /\ errorAlert
    /\ InFlight("post") = 0

\* the part of raw from its first to its last character that is not whitespace
Trimmed(raw) ==
    LET text == {k \in 1..Len(raw) : raw[k] \notin Whitespace}
    IN  IF text = {} THEN <<>>
        ELSE SubSeq(raw, CHOOSE k \in text : \A j \in text : k <= j,
                         CHOOSE k \in text : \A j \in text : k >= j)

\* the continuation of a successful add puts one todo, not completed and with
\* the given title, in front of the todos that were there
AddedInFront(titleOf(_)) ==
    last' = "addResolve" =>
        \E r \in Pending("post") :
            /\ inflight' = inflight (-) SetToBag({r})
            /\ Len(todos') = Len(todos) + 1
            /\ todos'[1].title = titleOf(r.raw)
            /\ todos'[1].completed = FALSE
            /\ \A i \in 1..Len(todos) : todos'[i + 1] = todos[i]

AsTyped(raw) == raw

\* C7 as stated: the new todo has the title as it was submitted
C7_TitleAsSubmitted == [][AddedInFront(AsTyped)]_vars

\* C7: the new todo has the submitted title without its leading and trailing
\* whitespace, is not completed and is at index 0; the todos that were in the
\* collection follow it unchanged
C7_TrimmedTitleInFront == [][AddedInFront(Trimmed)]_vars

\* an add has just succeeded on a loaded collection
C7_Witness ==
    /\ last = "addResolve"
    /\ Len(todos) > 10
    /\ todos[1].title = <<"B">>
    /\ todos[1].createdAt = Today

\* the first todo of T with the id
First(T, id) == T[CHOOSE i \in 1..Len(T) : T[i].id = id /\ \A j \in 1..(i - 1) : T[j].id # id]

\* C8: when the update is issued the todo holds the flipped value, and the
\* continuation of a failed update changes neither todos nor the error alert
C8_FailedUpdateKeepsFlip ==
    [][/\ \A r \in Pending("put")' :
            InFlight("put")' > InFlight("put") /\ inflight' = inflight (+) SetToBag({r}) =>
                /\ First(todos', r.id).completed = ~First(todos, r.id).completed
                /\ First(todos', r.id).completed = r.completed
       /\ last' = "putReject" => UNCHANGED <<todos, filteredTodos, errorAlert>>]_vars

\* an update has just failed and the first todo holds the flipped value
C8_Witness ==
    /\ last = "putReject"
    /\ Len(todos) > 10
    /\ todos[1].id = 1
    /\ todos[1].completed
    /\ ~errorAlert

\* C9: after two toggles of one id in a row the collection is what it was
\* before the first of them
C9_ToggleTwiceRestores ==
    Len(tog.hist) = 2 => todos = tog.hist[1]

\* two toggles in a row, both updates still in flight
C9_Witness ==
    /\ Len(tog.hist) = 2
    /\ InFlight("put") = 2

\* C10: when the delete is issued the collection is already without the
\* todos of that id; the continuation of a failed delete changes neither todos
\* nor the error alert; a delete that is not confirmed changes nothing
C10_DeleteIsImmediate ==
    [][/\ \A r \in Pending("delete")' :
            InFlight("delete")' > InFlight("delete") /\ inflight' = inflight (+) SetToBag({r}) =>
                /\ r.id \notin Ids(todos')
                /\ Len(todos') = Cardinality({i \in 1..Len(todos) : todos[i].id # r.id})
                /\ \A i \in 1..Len(todos') :
                      todos'[i] = todos[Nth({j \in 1..Len(todos) : todos[j].id # r.id}, i)]
       /\ last' = "deleteReject" => UNCHANGED <<todos, filteredTodos, errorAlert>>
       /\ DeleteCancelled =>
            UNCHANGED <<todos, filteredTodos, currentPage, inflight, alerts>>]_vars

\* a delete has just failed and the todo is still gone
C10_Witness ==
    /\ last = "deleteReject"
    /\ Len(todos) = 10
    /\ 1 \notin Ids(todos)
    /\ ~errorAlert

\* filteredTodos is the items of todos that satisfy the filter inputs, each
\* once and in the order of todos
FilteredIsKept ==
    LET kept == {i \in 1..Len(todos) : Satisfies(todos[i])}
        \* the place in the result of the kept item i of todos
        place(i) == Cardinality({j \in kept : j <= i})
    IN  /\ Len(filteredTodos) = Cardinality(kept)
        /\ \A i \in kept : filteredTodos[place(i)] = todos[i]

\* C11: the filter returns the items of T that contain the search text,
\* letter case ignored, and lie within the two inclusive bounds that are set,
\* each once and in the order of T; with no filter set it returns T
C11_FilterContract ==
    last # "event" =>
        /\ FilteredIsKept
        /\ (searchInput = <<>> /\ fromDate = <<>> /\ toDate = <<>>)
              => filteredTodos = todos

\* the three filters are set, a todo dated on each bound is kept and another
\* todo is left out
C11_Witness ==
    /\ last = "applyFilters"
    /\ searchInput = <<"B">>
    /\ fromDate = Date1
    /\ toDate = Date2
    /\ Len(todos) = 2
    /\ Len(filteredTodos) = 1
    /\ filteredTodos[1].title = <<"B", "a">>
    /\ filteredTodos[1].createdAt \in {Date1, Date2}

----------------------------------------------------------------------------
(* Pagination *)

RECURSIVE PagesUpTo(_, _)
PagesUpTo(F, k) ==
    IF k = 0 THEN <<>> ELSE PagesUpTo(F, k - 1) \o getPaginatedTodos(F, k)

\* C12: every page holds at most 10 items, and the pages 1..pageCount one
\* after the other are exactly the filtered list
C12_PagesRebuildList ==
    last # "event" =>
        LET n == PageCount(Len(filteredTodos), 10)
        IN  /\ \A k \in 1..(n + 1) : Len(getPaginatedTodos(filteredTodos, k)) <= 10
            /\ PagesUpTo(filteredTodos, n) = filteredTodos
            /\ PagesUpTo(filteredTodos, IF n < 1 THEN 1 ELSE n) = filteredTodos

\* 25 todos: three pages, and the third page, which is shown, holds the
\* todos 21 to 25
C12_Witness ==
    /\ last = "goToPage"
    /\ Len(filteredTodos) = 25
    /\ currentPage = 3
    /\ getPaginatedTodos(filteredTodos, currentPage) = SubSeq(filteredTodos, 21, 25)

\* C13: goToPage(k) leaves todos and filteredTodos alone; with k < 1 or
\* k > pageCount it leaves currentPage alone too, and otherwise it sets
\* currentPage to k
C13_GoToPage ==
    [][\A k \in PageInputs :
          asked' = <<k>> =>
              /\ todos' = todos
              /\ filteredTodos' = filteredTodos
              /\ currentPage' = IF k < 1 \/ k > PageCount(Len(filteredTodos), 10)
                                THEN currentPage
                                ELSE k]_vars

\* page 3 of two pages has just been asked for while page 2 is shown
C13_Witness ==
    /\ asked = <<3>>
    /\ Len(filteredTodos) = 12
    /\ currentPage = 2

\* C14 as stated: the page count is never less than 1, an empty list has
\* one page
C14_PageCountAtLeastOne ==
    last # "event" =>
        /\ totalPages(filteredTodos) >= 1
        /\ Len(filteredTodos) = 0 => totalPages(filteredTodos) = 1

\* C14: the page count is ceil(n / 10), which is 0 for an empty list and at
\* least 1 for any other; on an empty list page 1 is shown and a request
\* for any page, page 1 included, is out of range and leaves it so
C14_PageCountIsCeil ==
    /\ last # "event" =>
          /\ totalPages(filteredTodos) = PageCount(Len(filteredTodos), 10)
          /\ Len(filteredTodos) = 0 <=> totalPages(filteredTodos) = 0
          /\ Len(filteredTodos) = 0 => currentPage = 1
    /\ (asked # <<>> /\ Len(filteredTodos) = 0) => asked[1] \notin 1..totalPages(filteredTodos)
    /\ (asked # <<>> /\ asked[1] \in 1..totalPages(filteredTodos)) => currentPage = asked[1]

\* page 1 of an empty list has just been asked for
C14_Witness ==
    /\ asked = <<1>>
    /\ Len(filteredTodos) = 0
    /\ totalPages(filteredTodos) = 0
    /\ currentPage = 1

Shown(total, current) ==
    {1, total} \cup {i \in 1..total : i - current \in -2..2}

\* the pages shown in ascending order, with one ellipsis where a run of
\* pages left out begins
RECURSIVE Windowed(_, _, _)
Windowed(i, total, current) ==
    IF i = 0 THEN <<>>
    ELSE Windowed(i - 1, total, current) \o
         (IF i \in Shown(total, current) THEN <<i>>
          ELSE IF (i - 1) \in Shown(total, current) THEN <<Ellipsis>>
          ELSE <<>>)

\* C18: with two pages or more the page-number list shows page 1, the last
\* page and the pages within distance 2 of the current page and no other,
\* one ellipsis for each run of pages left out, so at most one ellipsis on
\* each side of the current page
C18_PageWindow ==
    LET total == totalPages(filteredTodos)
        L == PageItems(total, currentPage)
        at == CHOOSE j \in 1..Len(L) : L[j] = currentPage
    IN  (last # "event" /\ total >= 2) =>
            /\ {L[j] : j \in 1..Len(L)} \ {Ellipsis} = Shown(total, currentPage)
            /\ L = Windowed(total, total, currentPage)
            /\ Cardinality({j \in 1..(at - 1) : L[j] = Ellipsis}) <= 1
            /\ Cardinality({j \in (at + 1)..Len(L) : L[j] = Ellipsis}) <= 1

\* page 5 of 10: an ellipsis on each side
C18_Witness ==
    /\ last = "goToPage"
    /\ totalPages(filteredTodos) = 10
    /\ currentPage = 5
    /\ PageItems(10, currentPage) = <<1, Ellipsis, 3, 4, 5, 6, 7, Ellipsis, 10>>

----------------------------------------------------------------------------
(* Loads and local changes *)

\* T is the list of a response, item by item
Holds(T, list) ==
    /\ Len(T) = Len(list)
    /\ \A i \in 1..Len(list) :
          /\ T[i].id = list[i].id
          /\ T[i].title = list[i].todo
          /\ T[i].completed = list[i].completed
          /\ T[i].userId = list[i].userId

\* C15: two loads in flight together have both resolved: todos holds the
\* list of the one that resolved last
C15_LastResolvedLoadWins ==
    Len(resp) = 2 => Holds(todos, resp[2])

\* the load that got the empty list resolved first, the one that got the
\* long list resolved last
C15_Witness ==
    /\ Len(resp) = 2
    /\ resp[1] = <<>>
    /\ Len(resp[2]) = BigLoad
    /\ Len(todos) = BigLoad

\* the calls of a kind that the step issues
Issued(kind) ==
    IF BagCardinality(inflight') <= BagCardinality(inflight) THEN {}
    ELSE {r \in Pending(kind)' : CopiesIn(r, inflight') > CopiesIn(r, inflight)}

\* C16: the step that issues the PUT or the DELETE call has flipped or
\* removed the todo in todos and has applied the filters to the result
C16_LocalChangeBeforeCall ==
    [][/\ \A r \in Issued("put") :
             /\ \E i \in 1..Len(todos) :
                   /\ todos[i].id = r.id
                   /\ \A j \in 1..(i - 1) : todos[j].id # r.id
                   /\ r.completed = ~todos[i].completed
                   /\ todos' = [todos EXCEPT ![i].completed = r.completed]
             /\ FilteredIsKept'
       /\ \A r \in Issued("delete") :
             /\ Len(todos') = Cardinality({i \in 1..Len(todos) : todos[i].id # r.id})
             /\ \A i \in 1..Len(todos') : todos'[i].id # r.id
             /\ \A i \in 1..Len(filteredTodos') : filteredTodos'[i].id # r.id
             /\ FilteredIsKept']_vars

\* the PUT and the DELETE of todo 1 are in flight and todo 1 is in neither
\* list
C16_Witness ==
    /\ Pending("put") # {}
    /\ Pending("delete") # {}
    /\ Len(todos) = BigLoad - 1
    /\ todos[1].id = 2
    /\ filteredTodos = todos

\* C17: a step that applies the filters (a filter input set, the filters
\* cleared, a load or an add resolved, a present todo toggled, a delete
\* confirmed) sets currentPage to 1; the toggle of an absent id and goToPage
\* out of range leave currentPage as it is
C17_FilterRecomputeResetsPage ==
    [][/\ currentPage' = 1 \/ ~(\/ filters' # filters
                                \/ todos' # todos
                                \/ filteredTodos' # filteredTodos
                                \/ last' \in {"loadResolve", "addResolve"}
                                \/ Issued("put") # {}
                                \/ Issued("delete") # {})
       /\ last' = "toggleAbsent" => currentPage' = currentPage
       /\ (asked' # <<>> /\ asked'[1] \notin 1..PageCount(Len(filteredTodos), 10))
             => currentPage' = currentPage]_vars

\* an absent id has just been toggled while page 2 is shown
C17_Witness ==
    /\ last = "toggleAbsent"
    /\ currentPage = 2
    /\ Len(filteredTodos) > 10

\* C19: a load that resolves after todos was changed while it was in flight
\* leaves in todos exactly the list of its response
C19_LoadOverwritesLocal ==
    last = "overwritten" => (resp # <<>> /\ Holds(todos, resp[Len(resp)]))

\* todo 1 was toggled to completed while the load was in flight, its PUT is
\* still in flight and todo 1 is back to the remote value
C19_Witness ==
    /\ last = "overwritten"
    /\ \E r \in Pending("put") : r.id = 1 /\ r.completed
    /\ Len(todos) = BigLoad
    /\ todos[1].id = 1
    /\ ~todos[1].completed

\* C20: with no load and no add call in flight the loading indicator is
\* hidden
C20_IdleHidesLoading ==
    (InFlight("get") = 0 /\ InFlight("post") = 0) => ~loadingIndicator

\* the last of the load and add calls has just failed
C20_Witness ==
    /\ last \in {"loadReject", "addReject"}
    /\ InFlight("get") = 0
    /\ InFlight("post") = 0
    /\ errorAlert
    /\ ~loadingIndicator

====
